---- MODULE Spec2Model ----
(***************************************************************************)
(* A model of wary: the dependency graph (wary/graph.py), the results      *)
(* ledger (wary/ledger.py), the test orchestrator (wary/orchestrator.py),  *)
(* the version watcher (wary/watcher.py), the protected routes of the HTTP *)
(* API (wary/api.py) with the `test` command of the CLI (wary/cli.py), the *)
(* PostgreSQL graph (wary/stores.py) and the wary-test action              *)
(* (.github/actions/wary-test/test.py).                                    *)
(*                                                                         *)
(* The specifications share the variables:                                 *)
(*   Spec       one test_all_dependents batch, run_test step by step       *)
(*   SpecGraph  sequences of DependencyGraph.register_dependent calls      *)
(*   SpecLedger add_result calls on a ResultsLedger, then one read of it   *)
(*   SpecWatch  VersionWatcher.check_for_updates calls, the index changing *)
(*   SpecFront  one request to the HTTP API or one `wary test` command     *)
(*   SpecDaemon VersionWatcher.watch_continuously, as `wary watch` runs it *)
(*   SpecWorkers    server workers serving POST /api/dependents at once    *)
(*   SpecBackends   the same calls on DependencyGraph and on               *)
(*                  PostgresDependencyGraph                                *)
(*   SpecPool   the wary-test action: run_test on the executor's threads   *)
(***************************************************************************)
EXTENDS Integers, Sequences, FiniteSets, TLC

VARIABLES
    graph,       \* DependencyGraph._store: upstream -> stored (JSON) edge list
    regLog,      \* history: the register_dependent calls made, in order
    now,         \* the wall clock read by datetime.now()
    pc,          \* control position of test_all_dependents / run_test
    batch,       \* locals of test_all_dependents: upstream, version, dependents, idx
    results,     \* local `results` of test_all_dependents
    run,         \* locals of the run_test call in progress
    ledger,      \* ResultsLedger._store: test_id -> stored (JSON) result
    sandboxes,   \* the temporary directories that exist on disk
    calls,       \* history: the child processes run_test has started, with their outcomes
    exc,         \* the exception that left test_all_dependents
    nextId,      \* uuid.uuid4(): the next fresh identifier
    lastAdded,   \* history: test_id -> the result last passed to add_result under it,
                 \*          and whether another test_id was stored after it
    ret,         \* the last ResultsLedger operation called and what it returned
    stored,      \* VersionWatcher._store: package -> stored (JSON) version record
    index,       \* the package index: package -> latest released version
    epoch,       \* history: package -> number of releases made since the start
    lastOk,      \* history: package -> epoch of its last successful lookup
    watch,       \* locals of the check_for_updates call and its position
    lookups,     \* history: the lookups of the current check_for_updates call
    cbLog,       \* history: the callback invocations, with the stored version seen
    daemon,      \* locals of the watch_continuously call and its position
    env_key,     \* os.environ.get('WARY_API_KEY', '')
    request,     \* the HTTP request or CLI command being served
    response,    \* how it ended: HTTP status and body, or exit status and output
    workers,     \* server workers: locals and position of the register_dependent
                 \*          call each one is serving
    pg,          \* PostgresDependencyGraph: the rows of table dependency_edges
    main,        \* wary-test action: locals and position of main()
    jobs         \* wary-test action: the runs submitted to the executor, in order

vars == <<graph, regLog, now, pc, batch, results, run, ledger,
          sandboxes, calls, exc, nextId, lastAdded, ret,
          stored, index, epoch, lastOk, watch, lookups, cbLog, daemon,
          env_key, request, response, workers, pg, main, jobs>>

graphVars == <<graph, regLog>>
orchVars == <<pc, batch, results, run, ledger, sandboxes, calls, exc, nextId>>
runVars == <<pc, batch, results, run, sandboxes, calls, exc, nextId>>
queryVars == <<lastAdded, ret>>
watchVars == <<stored, index, epoch, lastOk, watch, lookups, cbLog, daemon>>
frontVars == <<env_key, request, response>>
poolVars == <<main, jobs>>
extVars == <<workers, pg, poolVars>>
auxVars == <<queryVars, watchVars, frontVars, extVars>>

(***************************************************************************)
(* Bounds and input sets                                                   *)
(***************************************************************************)
MaxDeps == 3
MaxRegs == 3
MaxIds == 3
MaxChecks == 2
MaxReleases == 2
MaxFrontDeps == 2
MaxWorkers == 2
MaxPoolDeps == 2
MaxParallel == 2

Upstreams == {"dol", "i2"}
Downstreams == {"pkg1", "pkg2", "pkg3"}
Versions == {"0.2.51"}
StderrTexts == {"ERROR: No matching distribution", "ERROR: network unreachable"}
NoStderr == ""
InstalledVersions == {"1.4.0"}

(***************************************************************************)
(* Values: datetimes and their JSON form                                   *)
(***************************************************************************)
\* A datetime object holding instant t.
Datetime(t) == [type |-> "datetime", t |-> t]

\* str(datetime): json.dumps(..., default=str) turns a datetime into a string.
DefaultStr(v) == IF v.type = "datetime" THEN [type |-> "str", t |-> v.t] ELSE v

\* json.dumps(edge, default=str) followed by json.loads: the stored form of an edge.
JsonEdge(e) == [e EXCEPT !.registered_at = DefaultStr(@)]

\* json.dumps(result, default=str) followed by json.loads: the stored form of a result.
JsonResult(r) ==
    [r EXCEPT !.started_at = DefaultStr(@), !.finished_at = DefaultStr(@)]

(***************************************************************************)
(* DependencyGraph                                                         *)
(***************************************************************************)
\* The keyword arguments of one register_dependent call.
RegArgs ==
    { [constraint |-> "", test_command |-> "pytest", contact |-> "", extras |-> <<>>],
      [constraint |-> ">=1.0", test_command |-> "pytest tests/", contact |-> "",
       extras |-> <<>>],
      [constraint |-> "", test_command |-> "pytest", contact |-> "a@b.c",
       extras |-> [source |-> "local"]],
      [constraint |-> ">=1.0", test_command |-> "pytest", contact |-> "a@b.c",
       extras |-> [source |-> "librariesio"]] }

\* A __getitem__ that, for a missing key, falls back to the first stored list.
GetItemFallback(g, upstream) ==
    IF upstream \in DOMAIN g THEN g[upstream]
    ELSE IF DOMAIN g = {} THEN <<>> ELSE g[CHOOSE u \in DOMAIN g : TRUE]

\* DependencyGraph.__getitem__: the stored list, [] when the key is missing.
GetItem(g, upstream) == IF upstream \in DOMAIN g THEN g[upstream] ELSE <<>>

\* DependencyGraph.__setitem__: json.dumps(edges, default=str) written under the key.
SetItem(g, upstream, edges) ==
    [u \in DOMAIN g \cup {upstream} |->
        IF u = upstream THEN [i \in 1..Len(edges) |-> JsonEdge(edges[i])] ELSE g[u]]

\* {"test_command": test_command, "contact": contact, **metadata}
Metadata(a) ==
    a.extras @@ [test_command |-> a.test_command, contact |-> a.contact]

\* edge_dict of register_dependent.
EdgeDict(upstream, downstream, a, t) ==
    [upstream |-> upstream,
     downstream |-> downstream,
     constraint |-> a.constraint,
     registered_at |-> Datetime(t),
     risk_score |-> "0.5",
     metadata |-> Metadata(a)]

\* A filter that drops every existing edge of the upstream.
RemoveExistingAll(edges, downstream) == <<>>

\* [e for e in edges if e["downstream"] != downstream]
RemoveExisting(edges, downstream) ==
    SelectSeq(edges, LAMBDA e : e.downstream # downstream)

\* A register_dependent that appends without removing the existing edge.
RegisteredEdgesNoRemove(edges, edge_dict) == Append(edges, edge_dict)

\* The new edge list of register_dependent: the existing edge removed, the new appended.
RegisteredEdges(edges, edge_dict) ==
    Append(RemoveExisting(edges, edge_dict.downstream), edge_dict)

\* DependencyGraph.get_dependents
GetDependents(g, upstream) == GetItem(g, upstream)

\* The orders in which iterating a store can yield the keys in S.
KeyOrders(S) ==
    {s \in [1..Cardinality(S) -> S] : \A i, j \in DOMAIN s : i # j => s[i] # s[j]}

RECURSIVE GetAllEdges(_, _)
\* DependencyGraph.get_all_edges, the store yielding its keys in the order upstreams.
GetAllEdges(g, upstreams) ==
    IF upstreams = <<>> THEN <<>>
    ELSE GetItem(g, Head(upstreams)) \o GetAllEdges(g, Tail(upstreams))

\* The body of register_dependent(upstream, downstream, **a).
Registration(upstream, downstream, a) ==
    /\ Len(regLog) < MaxRegs
    /\ LET edges == GetItem(graph, upstream)
           edge_dict == EdgeDict(upstream, downstream, a, now)
       IN graph' = SetItem(graph, upstream, RegisteredEdges(edges, edge_dict))
    /\ now' = now + 1
    /\ regLog' = Append(regLog, [upstream |-> upstream, downstream |-> downstream,
                                 args |-> a])

\* DependencyGraph.register_dependent(upstream, downstream, **a), called directly.
RegisterDependent(upstream, downstream, a) ==
    /\ Registration(upstream, downstream, a)
    /\ UNCHANGED <<orchVars, auxVars>>

(***************************************************************************)
(* The environment of run_test: what a child process can do                *)
(***************************************************************************)
\* The child exited with return code rc (negative: killed by signal -rc).
Exit(rc) == [kind |-> "exit", rc |-> rc]
\* The child was still running when the timeout expired.
TimedOut == [kind |-> "timeout", rc |-> 0]
\* The call raised before a child could finish (OSError, venv.EnvBuilder failure).
Faulted == [kind |-> "fault", rc |-> 0]
\* The child never exits and no timeout ends the wait for it.
Hung == [kind |-> "hang", rc |-> 0]

InstallExitCodes == {0, 1}
TestExitCodes == {-1, 0, 1}

VenvOutcomes == {Exit(0), Faulted}
InstallOutcomes == {Exit(rc) : rc \in InstallExitCodes} \cup {TimedOut}
TestOutcomes == {Exit(rc) : rc \in TestExitCodes} \cup {TimedOut}

\* The environment of the process running wary, and its PATH.
HostEnv == <<"host">>
PathLookup == <<"PATH">>

(***************************************************************************)
(* ResultsLedger                                                           *)
(***************************************************************************)
\* A __setitem__ that replaces the content of the whole store.
LedgerSetItemClobber(l, test_id, result) == [k \in {test_id} |-> JsonResult(result)]

\* ResultsLedger.__setitem__: the JSON form of the result written under test_id.
LedgerSetItem(l, test_id, result) ==
    [k \in DOMAIN l \cup {test_id} |-> IF k = test_id THEN JsonResult(result) ELSE l[k]]

\* ResultsLedger.add_result
AddResult(l, result) == LedgerSetItem(l, result.test_id, result)

\* ResultsLedger.__getitem__: the stored record, or KeyError (no value).
LedgerGetItem(l, test_id) ==
    IF test_id \in DOMAIN l
    THEN [raised |-> "none", value |-> {l[test_id]}]
    ELSE [raised |-> "KeyError", value |-> {}]

\* datetime.fromisoformat of a stored timestamp string.
FromIsoFormat(s) == IF s.type = "str" THEN Datetime(s.t) ELSE s

\* Python truth of an optional string argument: None (no value) and "" are false.
Truthy(opt) == opt # {} /\ opt # {""}

\* The filters of query_results; an argument left at None is the empty set.
NoFilters ==
    [upstream_package |-> {}, downstream_package |-> {}, status |-> {}, after |-> {}]

\* A query_results that also drops the results started exactly at `after`.
SkippedAtAfter(result, f) ==
    \/ Truthy(f.upstream_package) /\ result.upstream_package \notin f.upstream_package
    \/ Truthy(f.downstream_package) /\ result.downstream_package \notin f.downstream_package
    \/ Truthy(f.status) /\ result.status \notin f.status
    \/ \E a \in f.after : FromIsoFormat(result.started_at).t <= a.t

\* The `continue` conditions of the loop of query_results.
Skipped(result, f) ==
    \/ Truthy(f.upstream_package) /\ result.upstream_package \notin f.upstream_package
    \/ Truthy(f.downstream_package) /\ result.downstream_package \notin f.downstream_package
    \/ Truthy(f.status) /\ result.status \notin f.status
    \/ \E a \in f.after : FromIsoFormat(result.started_at).t < a.t

RECURSIVE QueryResults(_, _, _)
\* ResultsLedger.query_results, the store yielding the test ids in the order ids.
QueryResults(l, ids, f) ==
    IF ids = <<>> THEN <<>>
    ELSE LET result == l[Head(ids)]
             rest == QueryResults(l, Tail(ids), f)
         IN IF Skipped(result, f) THEN rest ELSE <<result>> \o rest

RECURSIVE SortByStartedAtAscending(_)
\* A sort by started_at without reverse=True.
SortByStartedAtAscending(rs) ==
    IF rs = <<>> THEN <<>>
    ELSE LET init == SortByStartedAtAscending(SubSeq(rs, 1, Len(rs) - 1))
             x == rs[Len(rs)]
             k == Cardinality({i \in DOMAIN init :
                      FromIsoFormat(init[i].started_at).t <= FromIsoFormat(x.started_at).t})
         IN SubSeq(init, 1, k) \o <<x>> \o SubSeq(init, k + 1, Len(init))

RECURSIVE SortByStartedAt(_)
\* results.sort(key=fromisoformat(started_at), reverse=True): stable, latest first.
SortByStartedAt(rs) ==
    IF rs = <<>> THEN <<>>
    ELSE LET init == SortByStartedAt(SubSeq(rs, 1, Len(rs) - 1))
             x == rs[Len(rs)]
             k == Cardinality({i \in DOMAIN init :
                      FromIsoFormat(init[i].started_at).t >= FromIsoFormat(x.started_at).t})
         IN SubSeq(init, 1, k) \o <<x>> \o SubSeq(init, k + 1, Len(init))

\* ResultsLedger.get_latest_result: no value (None), or the first of the sorted results.
GetLatestResult(l, ids, upstream_package, downstream_package) ==
    LET found == QueryResults(l, ids, [NoFilters EXCEPT
                     !.upstream_package = {upstream_package},
                     !.downstream_package = {downstream_package}])
    IN IF found = <<>> THEN {} ELSE {SortByStartedAt(found)[1]}

\* The test ids, package pairs, statuses and start times clients store results with.
TestIds == 1..MaxIds
ResultContents ==
    {[upstream_package |-> "dol", downstream_package |-> "pkg1", status |-> "pass", started |-> 0],
     [upstream_package |-> "dol", downstream_package |-> "pkg1", status |-> "fail", started |-> 1],
     [upstream_package |-> "dol", downstream_package |-> "pkg1", status |-> "pass", started |-> 1],
     [upstream_package |-> "i2", downstream_package |-> "pkg2", status |-> "error", started |-> 2]}

\* A TestResult as a client builds it.
NewResult(test_id, c) ==
    [test_id |-> test_id,
     upstream_package |-> c.upstream_package,
     upstream_version |-> "0.2.51",
     downstream_package |-> c.downstream_package,
     downstream_version |-> "1.0.0",
     test_command |-> "pytest",
     commit_hash |-> "abc123",
     status |-> c.status,
     started_at |-> Datetime(c.started),
     finished_at |-> Datetime(c.started + 1),
     output |-> <<c.status>>,
     exit_code |-> IF c.status = "pass" THEN 0 ELSE 1,
     environment |-> [python_version |-> "3.10"]]

\* The filter arguments clients call query_results with.
QueryFilters ==
    [upstream_package : {{}, {"dol"}, {""}},
     downstream_package : {{}, {"pkg1"}},
     status : {{}, {"fail"}},
     after : {{}, {Datetime(1)}}]

NoRet == [op |-> "none"]
ReadOps == {"query_results", "get_latest_result", "getitem"}

\* ledger.add_result(result), the result built by the client from test_id and c.
ClientAddResult(test_id, c) ==
    /\ ret.op \notin ReadOps
    /\ LET result == NewResult(test_id, c)
       IN /\ ledger' = AddResult(ledger, result)
          /\ lastAdded' = [k \in DOMAIN lastAdded \cup {test_id} |->
                              IF k = test_id
                              THEN [result |-> result, followed |-> FALSE]
                              ELSE [lastAdded[k] EXCEPT !.followed = TRUE]]
    /\ ret' = [op |-> "add_result"]
    /\ UNCHANGED <<graphVars, now, runVars, watchVars, frontVars, extVars>>

\* ledger.query_results(**f)
ClientQueryResults(f, ids) ==
    /\ ret.op \notin ReadOps
    /\ ret' = [op |-> "query_results", filters |-> f,
               value |-> QueryResults(ledger, ids, f)]
    /\ UNCHANGED <<graphVars, now, runVars, ledger, lastAdded, watchVars, frontVars, extVars>>

\* ledger.get_latest_result(upstream_package, downstream_package)
ClientGetLatestResult(upstream_package, downstream_package, ids) ==
    /\ ret.op \notin ReadOps
    /\ ret' = [op |-> "get_latest_result",
               upstream_package |-> upstream_package,
               downstream_package |-> downstream_package,
               value |-> GetLatestResult(ledger, ids, upstream_package, downstream_package)]
    /\ UNCHANGED <<graphVars, now, runVars, ledger, lastAdded, watchVars, frontVars, extVars>>

\* ledger[test_id], on the instance that stored the results or on a new
\* ResultsLedger(store_path) of the same path: both read the same files.
ClientGetItem(test_id, instance) ==
    /\ ret.op \notin ReadOps
    /\ ret' = [op |-> "getitem", test_id |-> test_id, instance |-> instance,
               got |-> LedgerGetItem(ledger, test_id)]
    /\ UNCHANGED <<graphVars, now, runVars, ledger, lastAdded, watchVars, frontVars, extVars>>

(***************************************************************************)
(* VersionWatcher                                                          *)
(***************************************************************************)
WatchPackages == {"dol", "i2"}
WatchVersions == {"1.0", "1.1"}

\* The package lists check_for_updates is called with.
WatchLists == {<<"dol">>, <<"dol", "i2">>, <<"i2", "i2">>}

\* The callbacks: none given, one that returns, one that raises.
Callbacks == {"none", "returns", "raises"}

\* VersionWatcher.get_latest_version: the index's version, or None (no value)
\* when the request fails.
LookupOutcomes(package) == {{index[package]}, {}}

\* VersionWatcher.get_stored_version: the stored version, None (no value) on KeyError.
GetStoredVersion(st, package) ==
    IF package \in DOMAIN st THEN {st[package].version} ELSE {}

\* An update_stored_version that writes nothing.
UpdateStoredVersionSkipped(st, package, version, t) == st

\* VersionWatcher.update_stored_version, with datetime.now().isoformat() of instant t.
UpdateStoredVersion(st, package, version, t) ==
    [p \in DOMAIN st \cup {package} |->
        IF p = package
        THEN [version |-> version, checked_at |-> [type |-> "str", t |-> t]]
        ELSE st[p]]

\* updates[package] = (stored_version, latest_version)
SetUpdate(updates, package, stored_version, latest_version) ==
    [p \in DOMAIN updates \cup {package} |->
        IF p = package THEN [old |-> stored_version, new |-> latest_version]
        ELSE updates[p]]

\* A failed lookup that ends the call instead of the iteration.
AfterFailedLookupReturn(w) == [w EXCEPT !.pc = "returned"]

\* `if latest_version is None: continue`: on to the next package.
AfterFailedLookup(w) == [w EXCEPT !.i = @ + 1]

NoCheck == [pc |-> "idle", packages |-> <<>>, i |-> 1, updates |-> <<>>,
            callback |-> "none", n |-> 0]

\* check_for_updates(packages, callback): up to the loop.
CheckStart(packages, callback) ==
    /\ watch.pc \in {"idle", "returned", "raised"}
    /\ watch.n < MaxChecks
    /\ watch' = [pc |-> "loop", packages |-> packages, i |-> 1, updates |-> <<>>,
                 callback |-> callback, n |-> watch.n + 1]
    /\ lookups' = <<>>

\* A caller other than watch_continuously calls check_for_updates.
CheckForUpdates(packages, callback) ==
    /\ CheckStart(packages, callback)
    /\ UNCHANGED <<graphVars, now, orchVars, queryVars, frontVars, extVars, stored, index, epoch, lastOk,
                   cbLog, daemon>>

\* One iteration of the loop of check_for_updates, the lookup answering latest.
CheckPackage(latest) ==
    /\ watch.pc = "loop"
    /\ watch.i <= Len(watch.packages)
    /\ LET package == watch.packages[watch.i]
           stored_version == GetStoredVersion(stored, package)
       IN /\ latest \in LookupOutcomes(package)
          /\ lookups' = Append(lookups, [package |-> package,
                                         stored |-> stored_version,
                                         latest |-> latest,
                                         epoch |-> epoch[package],
                                         last_ok |-> lastOk[package]])
          /\ lastOk' = IF latest = {} THEN lastOk
                       ELSE [lastOk EXCEPT ![package] = epoch[package]]
          /\ IF latest = {}
             THEN /\ watch' = AfterFailedLookup(watch)
                  /\ UNCHANGED <<stored, cbLog>>
             ELSE IF stored_version = latest
             THEN /\ watch' = [watch EXCEPT !.i = @ + 1]
                  /\ UNCHANGED <<stored, cbLog>>
             ELSE LET latest_version == CHOOSE v \in latest : TRUE
                      written == UpdateStoredVersion(stored, package, latest_version, now)
                  IN /\ stored' = written
                     /\ cbLog' = IF watch.callback = "none" THEN cbLog
                                 ELSE Append(cbLog,
                                        [package |-> package, old |-> stored_version,
                                         new |-> latest_version,
                                         stored |-> GetStoredVersion(written, package)])
                     /\ watch' = [watch EXCEPT
                           !.updates = SetUpdate(@, package, stored_version, latest_version),
                           !.i = IF watch.callback = "raises" THEN @ ELSE @ + 1,
                           !.pc = IF watch.callback = "raises" THEN "raised" ELSE @]
    /\ UNCHANGED <<graphVars, now, orchVars, queryVars, frontVars, extVars, index, epoch, daemon>>

\* The loop is exhausted: return updates.
CheckReturn ==
    /\ watch.pc = "loop"
    /\ watch.i > Len(watch.packages)
    /\ watch' = [watch EXCEPT !.pc = "returned"]
    /\ UNCHANGED <<graphVars, now, orchVars, queryVars, frontVars, extVars, stored, index, epoch, lastOk,
                   lookups, cbLog, daemon>>

\* The number of releases made so far.
Releases == epoch["dol"] + epoch["i2"]

\* The index publishes another latest version of a package.
IndexRelease(package, version) ==
    /\ Releases < MaxReleases
    /\ version # index[package]
    /\ index' = [index EXCEPT ![package] = version]
    /\ epoch' = [epoch EXCEPT ![package] = @ + 1]
    /\ UNCHANGED <<graphVars, now, orchVars, queryVars, frontVars, extVars, stored, lastOk, watch, lookups,
                   cbLog, daemon>>

NoDaemon == [pc |-> "off", packages |-> <<>>, callback |-> "none"]

\* The callbacks watch_continuously is given: `wary watch` passes on_update, which
\* returns or lets an exception of test_all_dependents through.
DaemonCallbacks == {"returns", "raises"}

\* watch_continuously(packages, callback, interval): up to the loop.
WatchContinuously(packages, callback) ==
    /\ daemon.pc = "off"
    /\ watch.pc = "idle"
    /\ daemon' = [pc |-> "loop", packages |-> packages, callback |-> callback]
    /\ UNCHANGED <<graphVars, now, orchVars, queryVars, frontVars, extVars, stored, index, epoch, lastOk,
                   watch, lookups, cbLog>>

\* while True: self.check_for_updates(packages, callback) is called.
DaemonPass ==
    /\ daemon.pc = "loop"
    /\ CheckStart(daemon.packages, daemon.callback)
    /\ daemon' = [daemon EXCEPT !.pc = "checking"]
    /\ UNCHANGED <<graphVars, now, orchVars, queryVars, frontVars, extVars, stored, index, epoch, lastOk,
                   cbLog>>

\* check_for_updates returned; time.sleep(interval) passes.
DaemonSleep ==
    /\ daemon.pc = "checking"
    /\ watch.pc = "returned"
    /\ daemon' = [daemon EXCEPT !.pc = "loop"]
    /\ now' = now + 1
    /\ UNCHANGED <<graphVars, orchVars, queryVars, frontVars, extVars, stored, index, epoch, lastOk,
                   watch, lookups, cbLog>>

\* check_for_updates raised: nothing in the loop catches it, and
\* watch_continuously is left by the exception.
DaemonRaise ==
    /\ daemon.pc = "checking"
    /\ watch.pc = "raised"
    /\ daemon' = [daemon EXCEPT !.pc = "raised"]
    /\ UNCHANGED <<graphVars, now, orchVars, queryVars, frontVars, extVars, stored, index, epoch, lastOk,
                   watch, lookups, cbLog>>

(***************************************************************************)
(* TestOrchestrator                                                        *)
(***************************************************************************)
DefaultTimeout == 600

\* An _create_error_result that reports a plain failure code.
CreateErrorResultExitOne(test_id, upstream_package, upstream_version, downstream_package, started_at, error_msg, t) ==
    [test_id |-> test_id,
     upstream_package |-> upstream_package,
     upstream_version |-> upstream_version,
     downstream_package |-> downstream_package,
     downstream_version |-> "unknown",
     test_command |-> "",
     commit_hash |-> "unknown",
     status |-> "fail",
     started_at |-> started_at,
     finished_at |-> Datetime(t),
     output |-> error_msg,
     exit_code |-> 1,
     environment |-> <<>>]

\* TestOrchestrator._create_error_result, with datetime.now() = t.
CreateErrorResult(test_id, upstream_package, upstream_version, downstream_package, started_at, error_msg, t) ==
    [test_id |-> test_id,
     upstream_package |-> upstream_package,
     upstream_version |-> upstream_version,
     downstream_package |-> downstream_package,
     downstream_version |-> "unknown",
     test_command |-> "",
     commit_hash |-> "unknown",
     status |-> "error",
     started_at |-> started_at,
     finished_at |-> Datetime(t),
     output |-> error_msg,
     exit_code |-> -1,
     environment |-> <<>>]

\* f"Failed to install {package}: {stderr}"
FailedToInstall(package, stderr) == <<"Failed to install ", package, ": ", stderr>>

\* status = "pass" if test_result.returncode == 0 else "fail"
TestStatus(returncode) == IF returncode = 0 THEN "pass" ELSE "fail"

\* The TestResult run_test builds after the test command has exited.
BuildResult(r, test_result, t) ==
    [test_id |-> r.test_id,
     upstream_package |-> r.upstream_package,
     upstream_version |-> r.upstream_version,
     downstream_package |-> r.downstream_package,
     downstream_version |-> r.downstream_version,
     test_command |-> r.test_command,
     commit_hash |-> "unknown",
     status |-> TestStatus(test_result.returncode),
     started_at |-> r.started_at,
     finished_at |-> Datetime(t),
     output |-> <<test_result.stdout, "\n", test_result.stderr>>,
     exit_code |-> test_result.returncode,
     environment |-> [python_version |-> r.python_version]]

\* str.split() of the test commands of the model.
Split(test_command) ==
    CASE test_command = "pytest" -> <<"pytest">>
      [] test_command = "pytest tests/" -> <<"pytest", "tests/">>
      [] OTHER -> <<>>

\* pip = venv_path / "bin" / "pip": an absolute path inside the run's tmpdir.
PipPath(tmpdir) == [root |-> tmpdir, rel |-> "venv/bin/pip"]

\* venv.create(venv_path, with_pip=True), run by the interpreter running wary.
VenvCreate == [root |-> PathLookup, rel |-> "venv.create"]

\* The program of the test command: test_command.split()[0], a bare name.
TestProgram(test_command) == [root |-> PathLookup, rel |-> Head(Split(test_command))]

\* The environment whose interpreter and packages a child process uses: the
\* virtual environment an absolute path points into, or, for a bare name looked
\* up on PATH with the inherited os.environ, the host's.
ExecutedIn(program) == IF program.root = PathLookup THEN HostEnv ELSE program.root

\* A TemporaryDirectory that is removed only when the block is left normally.
TmpDirExitNoFinally(boxes, tmpdir, how) ==
    IF how = "raise" THEN boxes ELSE boxes \ {tmpdir}

\* TemporaryDirectory.__exit__: the directory is removed however the block is left.
TmpDirExit(boxes, tmpdir, how) == boxes \ {tmpdir}

\* An install check that raises on a nonzero return code, as check=True would.
InstallStepChecked(completed) ==
    IF completed.returncode # 0 THEN "raise" ELSE "continue"

\* An install step whose return code is not looked at.
InstallStepUnchecked(completed) == "continue"

\* if install_result.returncode != 0: return self._create_error_result(...)
InstallStep(completed) ==
    IF completed.returncode # 0 THEN "return_error" ELSE "continue"

NoRun == [test_id |-> 0, tmpdir |-> <<>>]
NoExc == [type |-> "none", step |-> "none", test_id |-> 0]

\* One child process started by run_test, as the history records it.
Call(r, step, program, timeout, outcome, stderr) ==
    [test_id |-> r.test_id, downstream |-> r.downstream_package, step |-> step,
     program |-> program, executed_in |-> ExecutedIn(program),
     cwd |-> IF step = "test" THEN r.tmpdir ELSE <<>>,
     timeout |-> timeout, outcome |-> outcome, stderr |-> stderr]

\* run_test returns `result` to the loop of test_all_dependents, which appends it.
ReturnToLoop(result) ==
    /\ results' = Append(results, result)
    /\ batch' = [batch EXCEPT !.idx = @ + 1]
    /\ sandboxes' = TmpDirExit(sandboxes, run.tmpdir, "return")
    /\ run' = NoRun
    /\ pc' = "loop"
    /\ exc' = exc

\* An exception leaves run_test and, uncaught in the loop, test_all_dependents.
RaiseOut(type, step) ==
    /\ exc' = [type |-> type, step |-> step, test_id |-> run.test_id]
    /\ sandboxes' = TmpDirExit(sandboxes, run.tmpdir, "raise")
    /\ run' = NoRun
    /\ pc' = "raised"
    /\ UNCHANGED <<results, batch>>

\* test_all_dependents(upstream_package, upstream_version, graph): up to the loop.
BatchStart(upstream_package, upstream_version) ==
    /\ pc = "idle"
    /\ batch' = [upstream_package |-> upstream_package,
                 upstream_version |-> upstream_version,
                 dependents |-> GetDependents(graph, upstream_package),
                 idx |-> 1]
    /\ results' = <<>>
    /\ pc' = "loop"
    /\ UNCHANGED <<graphVars, now, run, ledger, sandboxes, calls, exc, nextId>>

\* test_all_dependents called directly.
TestAllDependents(upstream_package, upstream_version) ==
    /\ BatchStart(upstream_package, upstream_version)
    /\ UNCHANGED auxVars

\* The loop is exhausted: return results.
ReturnResults ==
    /\ pc = "loop"
    /\ batch.idx > Len(batch.dependents)
    /\ pc' = "returned"
    /\ UNCHANGED <<auxVars, graphVars, now, batch, results, run, ledger, sandboxes, calls, exc,
                   nextId>>

\* The next edge of the loop: run_test is called, creates its temporary directory
\* and the virtual environment in it.
RunTestEnter ==
    /\ pc = "loop"
    /\ batch.idx <= Len(batch.dependents)
    /\ LET edge == batch.dependents[batch.idx]
           test_cmd == IF "test_command" \in DOMAIN edge.metadata
                       THEN edge.metadata.test_command ELSE "pytest"
           tmpdir == <<"tmp", nextId>>
           r == [test_id |-> nextId,
                 started_at |-> Datetime(now),
                 upstream_package |-> batch.upstream_package,
                 upstream_version |-> batch.upstream_version,
                 downstream_package |-> edge.downstream,
                 test_command |-> test_cmd,
                 python_version |-> "python3",
                 timeout |-> DefaultTimeout,
                 tmpdir |-> tmpdir,
                 downstream_version |-> "unknown"]
       IN \E outcome \in VenvOutcomes :
            /\ nextId' = nextId + 1
            /\ now' = now + 1
            /\ calls' = Append(calls, Call(r, "venv", VenvCreate, {}, outcome, ""))
            /\ IF outcome.kind = "exit"
               THEN /\ run' = r
                    /\ sandboxes' = sandboxes \cup {tmpdir}
                    /\ pc' = "upstream_install"
                    /\ UNCHANGED <<exc, results, batch>>
               ELSE /\ exc' = [type |-> "Exception", step |-> "venv", test_id |-> r.test_id]
                    /\ sandboxes' = TmpDirExit(sandboxes \cup {tmpdir}, tmpdir, "raise")
                    /\ run' = NoRun
                    /\ pc' = "raised"
                    /\ UNCHANGED <<results, batch>>
    /\ UNCHANGED <<auxVars, graphVars, ledger>>

\* pip install {upstream_package}=={upstream_version}, and the check of its return code.
UpstreamInstall ==
    /\ pc = "upstream_install"
    /\ \E outcome \in InstallOutcomes, stderr \in StderrTexts \cup {NoStderr} :
         /\ outcome.kind = "exit" /\ outcome.rc # 0 => stderr \in StderrTexts
         /\ outcome = Exit(0) \/ outcome.kind = "timeout" => stderr = NoStderr
         /\ calls' = Append(calls, Call(run, "upstream_install", PipPath(run.tmpdir),
                                        {run.timeout}, outcome, stderr))
         /\ IF outcome.kind = "timeout"
            THEN RaiseOut("TimeoutExpired", "upstream_install") /\ now' = now
            ELSE LET install_result == [returncode |-> outcome.rc, stderr |-> stderr]
                 IN IF InstallStep(install_result) = "return_error"
                    THEN /\ ReturnToLoop(CreateErrorResult(
                                run.test_id, run.upstream_package, run.upstream_version,
                                run.downstream_package, run.started_at,
                                FailedToInstall(run.upstream_package, install_result.stderr),
                                now))
                         /\ now' = now + 1
                    ELSE IF InstallStep(install_result) = "raise"
                    THEN RaiseOut("CalledProcessError", "upstream_install") /\ now' = now
                    ELSE /\ pc' = "downstream_install"
                         /\ UNCHANGED <<now, run, results, batch, sandboxes, exc>>
    /\ UNCHANGED <<auxVars, graphVars, ledger, nextId>>

\* pip install {downstream_package}, and the check of its return code.
DownstreamInstall ==
    /\ pc = "downstream_install"
    /\ \E outcome \in InstallOutcomes, stderr \in StderrTexts \cup {NoStderr} :
         /\ outcome.kind = "exit" /\ outcome.rc # 0 => stderr \in StderrTexts
         /\ outcome = Exit(0) \/ outcome.kind = "timeout" => stderr = NoStderr
         /\ calls' = Append(calls, Call(run, "downstream_install", PipPath(run.tmpdir),
                                        {run.timeout}, outcome, stderr))
         /\ IF outcome.kind = "timeout"
            THEN RaiseOut("TimeoutExpired", "downstream_install") /\ now' = now
            ELSE LET downstream_install == [returncode |-> outcome.rc, stderr |-> stderr]
                 IN IF InstallStep(downstream_install) = "return_error"
                    THEN /\ ReturnToLoop(CreateErrorResult(
                                run.test_id, run.upstream_package, run.upstream_version,
                                run.downstream_package, run.started_at,
                                FailedToInstall(run.downstream_package,
                                                downstream_install.stderr),
                                now))
                         /\ now' = now + 1
                    ELSE IF InstallStep(downstream_install) = "raise"
                    THEN RaiseOut("CalledProcessError", "downstream_install") /\ now' = now
                    ELSE /\ pc' = "version_check"
                         /\ UNCHANGED <<now, run, results, batch, sandboxes, exc>>
    /\ UNCHANGED <<auxVars, graphVars, ledger, nextId>>

\* subprocess.run([pip, "show", ...], capture_output=True, text=True): no timeout.
VersionCheckTimeout(r) == {}

\* What pip show can do under a timeout setting: exit, or never exit; a child
\* that outlives a timeout raises TimeoutExpired instead.
VersionCheckOutcomes(timeout) ==
    {Exit(0), Exit(1)} \cup (IF timeout = {} THEN {Hung} ELSE {TimedOut})

\* pip show {downstream_package}: the last "Version:" line of its output, if any.
VersionCheck ==
    /\ pc = "version_check"
    /\ \E outcome \in VersionCheckOutcomes(VersionCheckTimeout(run)) :
         /\ calls' = Append(calls, Call(run, "version_check", PipPath(run.tmpdir),
                                        VersionCheckTimeout(run), outcome, ""))
         /\ CASE outcome = Hung ->
                   /\ pc' = "blocked"
                   /\ UNCHANGED <<run, sandboxes, exc>>
              [] outcome = TimedOut ->
                   /\ RaiseOut("TimeoutExpired", "version_check")
              [] OTHER ->
                   /\ \E found \in IF outcome = Exit(0) THEN InstalledVersions
                                    ELSE {"unknown"} :
                         run' = [run EXCEPT !.downstream_version = found]
                   /\ pc' = "run_tests"
                   /\ UNCHANGED <<sandboxes, exc>>
    /\ UNCHANGED <<auxVars, graphVars, now, batch, results, ledger, nextId>>

\* The test command, then the result built, stored in the ledger and returned.
RunTests ==
    /\ pc = "run_tests"
    /\ \E outcome \in TestOutcomes :
         /\ calls' = Append(calls, Call(run, "test", TestProgram(run.test_command),
                                        {run.timeout}, outcome, "test stderr"))
         /\ IF outcome.kind = "timeout"
            THEN /\ RaiseOut("TimeoutExpired", "test")
                 /\ UNCHANGED <<now, ledger>>
            ELSE LET test_result == [returncode |-> outcome.rc,
                                     stdout |-> "test stdout", stderr |-> "test stderr"]
                     result == BuildResult(run, test_result, now)
                 IN /\ ledger' = AddResult(ledger, result)
                    /\ ReturnToLoop(result)
                    /\ now' = now + 1
    /\ UNCHANGED <<auxVars, graphVars, nextId>>

(***************************************************************************)
(* The HTTP API (wary/api.py) and the CLI (wary/cli.py)                    *)
(***************************************************************************)
\* Header and key values as sequences of pieces, so that a prefix can be cut.
Bearer == "Bearer "
EnvKeys == {<<>>, <<"k1">>}
AuthorizationHeaders ==
    {<<>>, <<"k1">>, <<Bearer, "k1">>, <<"k2">>, <<Bearer, "k2">>, <<Bearer, Bearer, "k1">>}

\* if api_key.startswith('Bearer '): api_key = api_key[7:]
StripBearer(api_key) ==
    IF api_key # <<>> /\ Head(api_key) = Bearer THEN Tail(api_key) ELSE api_key

\* A check that only asks for some key to be sent.
RejectedIfNoKey(authorization, expected_key) ==
    expected_key # <<>> /\ StripBearer(authorization) = <<>>

\* require_api_key: if expected_key and api_key != expected_key: 401
Rejected(authorization, expected_key) ==
    expected_key # <<>> /\ StripBearer(authorization) # expected_key

NoRequest == [frontend |-> "none"]
NoResponse == [status |-> -1, raised |-> "none", body |-> <<>>]
Unauthorized == [status |-> 401, raised |-> "none", body |-> [error |-> "Invalid API key"]]
BadRequest == [status |-> 400, raised |-> "none", body |-> [error |-> "required"]]

\* The JSON bodies of the requests; a missing field reads as "" (data.get -> None).
RegisterData ==
    {[upstream |-> "dol", downstream |-> "pkg3"],
     [upstream |-> "dol", downstream |-> "pkg1"],
     [upstream |-> "dol", downstream |-> ""]}
TestData ==
    {[upstream |-> "dol", version |-> "0.2.51"],
     [upstream |-> "i2", version |-> "0.2.51"],
     [upstream |-> "dol", version |-> ""]}
WatchData == {[package |-> "dol"], [package |-> ""]}

\* The keyword arguments the register_dependent route passes on.
ApiRegArgs(data) ==
    [constraint |-> "", test_command |-> "pytest", contact |-> "",
     extras |-> [repo_url |-> ""]]

\* POST /api/dependents
ApiRegisterDependent(authorization, data) ==
    /\ request = NoRequest
    /\ request' = [frontend |-> "api", route |-> "POST /api/dependents",
                   authorization |-> authorization, data |-> data]
    /\ IF Rejected(authorization, env_key)
       THEN response' = Unauthorized /\ UNCHANGED <<graphVars, now>>
       ELSE IF data.upstream = "" \/ data.downstream = ""
       THEN response' = BadRequest /\ UNCHANGED <<graphVars, now>>
       ELSE /\ Registration(data.upstream, data.downstream, ApiRegArgs(data))
            /\ response' = [status |-> 201, raised |-> "none",
                            body |-> [status |-> "registered",
                                      upstream |-> data.upstream,
                                      downstream |-> data.downstream]]
    /\ UNCHANGED <<orchVars, queryVars, watchVars, env_key, extVars>>

\* POST /api/test: up to the loop of test_all_dependents.
ApiTriggerTest(authorization, data) ==
    /\ request = NoRequest
    /\ request' = [frontend |-> "api", route |-> "POST /api/test",
                   authorization |-> authorization, data |-> data]
    /\ IF Rejected(authorization, env_key)
       THEN response' = Unauthorized /\ UNCHANGED <<graphVars, now, orchVars>>
       ELSE IF data.upstream = "" \/ data.version = ""
       THEN response' = BadRequest /\ UNCHANGED <<graphVars, now, orchVars>>
       ELSE BatchStart(data.upstream, data.version) /\ UNCHANGED response
    /\ UNCHANGED <<queryVars, watchVars, env_key, extVars>>

\* The number of results with a status.
CountStatus(rs, status) == Cardinality({i \in DOMAIN rs : rs[i].status = status})

\* The summary trigger_test builds from the results.
Summary(upstream, version, rs) ==
    [upstream |-> upstream,
     version |-> version,
     total |-> Len(rs),
     passed |-> CountStatus(rs, "pass"),
     failed |-> CountStatus(rs, "fail"),
     results |-> [i \in DOMAIN rs |->
                    [downstream |-> rs[i].downstream_package,
                     status |-> rs[i].status,
                     test_id |-> rs[i].test_id]]]

\* POST /api/test: test_all_dependents returned, or raised into `except Exception`.
ApiTriggerTestReturn ==
    /\ request.frontend = "api"
    /\ request.route = "POST /api/test"
    /\ response = NoResponse
    /\ pc \in {"returned", "raised"}
    /\ response' = IF pc = "returned"
                   THEN [status |-> 200, raised |-> "none",
                         body |-> Summary(request.data.upstream, request.data.version, results)]
                   ELSE [status |-> 500, raised |-> "none", body |-> [error |-> exc.type]]
    /\ UNCHANGED <<graphVars, now, orchVars, queryVars, watchVars, env_key, extVars, request>>

\* POST /api/watch
ApiAddWatch(authorization, data) ==
    /\ request = NoRequest
    /\ request' = [frontend |-> "api", route |-> "POST /api/watch",
                   authorization |-> authorization, data |-> data]
    /\ response' = IF Rejected(authorization, env_key) THEN Unauthorized
                   ELSE IF data.package = "" THEN BadRequest
                   ELSE [status |-> 200, raised |-> "none",
                         body |-> [status |-> "watching", package |-> data.package]]
    /\ UNCHANGED <<graphVars, now, orchVars, queryVars, watchVars, env_key, extVars>>

\* wary test UPSTREAM VERSION: up to the loop of test_all_dependents.
CliTest(upstream, version) ==
    /\ request = NoRequest
    /\ request' = [frontend |-> "cli", route |-> "test",
                   data |-> [upstream |-> upstream, version |-> version]]
    /\ BatchStart(upstream, version)
    /\ UNCHANGED <<queryVars, watchVars, env_key, extVars, response>>

RECURSIVE Echo(_, _)
\* The loop of cli.test over the results: one line per result, made from
\* result['downstream'] and result['status']; a missing key raises KeyError.
Echo(rs, lines) ==
    IF rs = <<>> THEN [status |-> 0, raised |-> "none", body |-> lines]
    ELSE IF {"status", "downstream"} \subseteq DOMAIN Head(rs)
    THEN Echo(Tail(rs), Append(lines, [downstream |-> Head(rs)["downstream"],
                                       status |-> Head(rs)["status"]]))
    ELSE [status |-> 1, raised |-> "KeyError", body |-> lines]

\* wary test: test_all_dependents returned, or raised out of the command.
CliTestReturn ==
    /\ request.frontend = "cli"
    /\ response = NoResponse
    /\ pc \in {"returned", "raised"}
    /\ response' = IF pc = "returned" THEN Echo(results, <<>>)
                   ELSE [status |-> 1, raised |-> exc.type, body |-> <<>>]
    /\ UNCHANGED <<graphVars, now, orchVars, queryVars, watchVars, env_key, extVars, request>>

(***************************************************************************)
(* The server's workers serving POST /api/dependents side by side          *)
(***************************************************************************)
\* The worker processes of the production server ('workers': cpu_count * 2 + 1).
Workers == 1..MaxWorkers

NoCall == [pc |-> "idle"]

\* The workers whose register_dependent call has returned.
Returned == {w \in Workers : workers[w].pc = "returned"}

\* Worker w takes a request and runs register_dependent up to and including
\* `edges = self[upstream]`.
WorkerRead(w, upstream, downstream) ==
    /\ workers[w].pc = "idle"
    /\ workers' = [workers EXCEPT ![w] =
                      [pc |-> "read", upstream |-> upstream, downstream |-> downstream,
                       args |-> ApiRegArgs([upstream |-> upstream, downstream |-> downstream]),
                       edges |-> GetItem(graph, upstream),
                       after |-> Returned]]
    /\ UNCHANGED <<graphVars, now, orchVars, queryVars, watchVars, frontVars, pg, poolVars>>

\* Worker w builds edge_dict, filters and appends to the list it read, and
\* writes it back with `self[upstream] = edges`; the call returns.
WorkerWrite(w) ==
    /\ workers[w].pc = "read"
    /\ LET c == workers[w]
           edge_dict == EdgeDict(c.upstream, c.downstream, c.args, now)
       IN graph' = SetItem(graph, c.upstream, RegisteredEdges(c.edges, edge_dict))
    /\ now' = now + 1
    /\ workers' = [workers EXCEPT ![w].pc = "returned"]
    /\ UNCHANGED <<regLog, orchVars, queryVars, watchVars, frontVars, pg, poolVars>>

(***************************************************************************)
(* The wary-test action (.github/actions/wary-test/test.py), run locally   *)
(***************************************************************************)
\* What the steps of the action leave alone: the sequential caller of run_test,
\* the other clients, and the graph.
poolFrame == <<graphVars, pc, batch, results, run, calls, exc, queryVars, watchVars,
               frontVars, workers, pg>>

\* A uuid4 that repeats one value.
Uuid4Repeated(n) == 1

\* str(uuid.uuid4()), the n-th identifier drawn: a value not drawn before.
Uuid4(n) == n

NoMain == [pc |-> "idle", max_parallel |-> 0, package_name |-> "", package_version |-> "",
           dependents |-> <<>>, i |-> 1, results |-> <<>>, errors |-> <<>>,
           passed |-> 0, failed |-> 0]

\* The runs that occupy a thread of the executor.
InProgress == {j \in DOMAIN jobs : jobs[j].pc \in {"running", "blocked"}}

\* The runs whose future is done: run_test returned or raised.
Done == {j \in DOMAIN jobs : jobs[j].pc \in {"returned", "raised"}}

\* main() with PKG_NAME, PKG_VERSION and MAX_PARALLEL set and no API_URL: up to
\* the executor, or the return when there are no dependents.
Main(package_name, package_version, max_parallel) ==
    /\ main.pc = "idle"
    /\ LET dependents == GetDependents(graph, package_name)
       IN main' = [main EXCEPT !.pc = IF dependents = <<>> THEN "returned" ELSE "pool",
                               !.max_parallel = max_parallel,
                               !.package_name = package_name,
                               !.package_version = package_version,
                               !.dependents = dependents]
    /\ UNCHANGED <<poolFrame, now, ledger, sandboxes, nextId, jobs>>

\* One iteration of the submit loop: executor.submit(orchestrator.run_test, ...)
\* and futures.append((downstream, future)).
Submit ==
    /\ main.pc = "pool"
    /\ Len(jobs) < Len(main.dependents)
    /\ LET edge == main.dependents[Len(jobs) + 1]
           test_cmd == IF "test_command" \in DOMAIN edge.metadata
                       THEN edge.metadata.test_command ELSE "pytest"
       IN jobs' = Append(jobs, [pc |-> "queued", downstream |-> edge.downstream,
                                test_cmd |-> test_cmd, run |-> NoRun, result |-> {},
                                beside |-> {}])
    /\ UNCHANGED <<poolFrame, now, ledger, sandboxes, nextId, main>>

\* A thread of the executor takes run j from the queue: run_test draws its
\* test_id and creates its temporary directory.
JobStart(j) ==
    /\ jobs[j].pc = "queued"
    /\ Cardinality(InProgress) < main.max_parallel
    /\ LET test_id == Uuid4(nextId)
           tmpdir == <<"tmp", nextId>>
           r == [test_id |-> test_id,
                 started_at |-> Datetime(now),
                 upstream_package |-> main.package_name,
                 upstream_version |-> main.package_version,
                 downstream_package |-> jobs[j].downstream,
                 test_command |-> jobs[j].test_cmd,
                 python_version |-> "python3",
                 timeout |-> DefaultTimeout,
                 tmpdir |-> tmpdir,
                 downstream_version |-> "unknown"]
       IN /\ jobs' = [jobs EXCEPT ![j].pc = "running", ![j].run = r]
          /\ sandboxes' = sandboxes \cup {tmpdir}
    /\ nextId' = nextId + 1
    /\ now' = now + 1
    /\ UNCHANGED <<poolFrame, ledger, main>>

\* Run j fails to install a package: the error result is returned, not stored.
JobError(j, package) ==
    /\ jobs[j].pc = "running"
    /\ LET r == jobs[j].run
           result == CreateErrorResult(r.test_id, r.upstream_package, r.upstream_version,
                                       r.downstream_package, r.started_at,
                                       FailedToInstall(package, "pip stderr"), now)
       IN /\ package \in {r.upstream_package, r.downstream_package}
          /\ jobs' = [jobs EXCEPT ![j].pc = "returned", ![j].result = {result}]
          /\ sandboxes' = TmpDirExit(sandboxes, r.tmpdir, "return")
    /\ UNCHANGED <<poolFrame, now, ledger, nextId, main>>

\* Run j raises: TimeoutExpired of an install or of the test command, or a fault.
JobRaise(j) ==
    /\ jobs[j].pc = "running"
    /\ jobs' = [jobs EXCEPT ![j].pc = "raised"]
    /\ sandboxes' = TmpDirExit(sandboxes, jobs[j].run.tmpdir, "raise")
    /\ UNCHANGED <<poolFrame, now, ledger, nextId, main>>

\* Run j waits for a pip show that never exits.
JobBlock(j) ==
    /\ jobs[j].pc = "running"
    /\ Hung \in VersionCheckOutcomes(VersionCheckTimeout(jobs[j].run))
    /\ jobs' = [jobs EXCEPT ![j].pc = "blocked"]
    /\ UNCHANGED <<poolFrame, now, ledger, sandboxes, nextId, main>>

\* Run j gets through the test command: the result is built, stored in the
\* shared ledger under the run's test_id, and returned.
JobStore(j, returncode) ==
    /\ jobs[j].pc = "running"
    /\ LET r == [jobs[j].run EXCEPT !.downstream_version =
                                       CHOOSE v \in InstalledVersions : TRUE]
           test_result == [returncode |-> returncode,
                           stdout |-> "test stdout", stderr |-> "test stderr"]
           result == BuildResult(r, test_result, now)
       IN /\ ledger' = AddResult(ledger, result)
          /\ jobs' = [jobs EXCEPT ![j].pc = "returned", ![j].result = {result},
                                  ![j].beside = InProgress \ {j}]
          /\ sandboxes' = TmpDirExit(sandboxes, r.tmpdir, "return")
    /\ now' = now + 1
    /\ UNCHANGED <<poolFrame, nextId, main>>

\* The collecting loop is at future i: every run was submitted.
Collecting ==
    /\ main.pc = "pool"
    /\ Len(jobs) = Len(main.dependents)
    /\ main.i <= Len(jobs)

\* future.result(timeout=600) returns the result of run i: results.append(result).
CollectResult ==
    /\ Collecting
    /\ jobs[main.i].pc = "returned"
    /\ main' = [main EXCEPT !.results = Append(@, CHOOSE r \in jobs[main.i].result : TRUE),
                            !.i = @ + 1]
    /\ UNCHANGED <<poolFrame, now, ledger, sandboxes, nextId, jobs>>

\* future.result raises what run i raised, or TimeoutError when the run is not
\* done within the wait: `except Exception` prints a line and goes on.
CollectException ==
    /\ Collecting
    /\ jobs[main.i].pc # "returned"
    /\ main' = [main EXCEPT
          !.errors = Append(@, [job |-> main.i,
                                e |-> IF jobs[main.i].pc = "raised"
                                      THEN "raised by run_test" ELSE "TimeoutError"]),
          !.i = @ + 1]
    /\ UNCHANGED <<poolFrame, now, ledger, sandboxes, nextId, jobs>>

\* ThreadPoolExecutor.__exit__ is shutdown(wait=True): it returns when every
\* submitted run is done.
Shutdown == Done = DOMAIN jobs

\* The with block is left and the summary is computed.
PoolSummary ==
    /\ main.pc = "pool"
    /\ Len(jobs) = Len(main.dependents)
    /\ main.i > Len(jobs)
    /\ Shutdown
    /\ main' = [main EXCEPT !.pc = "summary",
                            !.passed = CountStatus(main.results, "pass"),
                            !.failed = CountStatus(main.results, "fail")]
    /\ UNCHANGED <<poolFrame, now, ledger, sandboxes, nextId, jobs>>

(***************************************************************************)
(* PostgresDependencyGraph, driven side by side with DependencyGraph       *)
(***************************************************************************)
\* The keyword arguments a caller passes to register_dependent besides upstream
\* and downstream: any of them can be left out.
CallKwargs ==
    { <<>>,
      [constraint |-> ">=1.0"],
      [test_command |-> "pytest tests/"],
      [constraint |-> ">=1.0", test_command |-> "pytest", contact |-> "a@b.c"] }

\* kwargs.get(key, default)
Get(kw, key, default) == IF key \in DOMAIN kw THEN kw[key] ELSE default

\* The keyword arguments left for **metadata after the named parameters.
Rest(kw, named) == [k \in DOMAIN kw \ named |-> kw[k]]

\* How DependencyGraph.register_dependent binds the call: constraint="",
\* test_command="pytest", contact="", **metadata.
FileBinding(kw) ==
    [constraint |-> Get(kw, "constraint", ""),
     test_command |-> Get(kw, "test_command", "pytest"),
     contact |-> Get(kw, "contact", ""),
     extras |-> Rest(kw, {"constraint", "test_command", "contact"})]

\* The row values of PostgresDependencyGraph.register_dependent, which binds the
\* call as constraint="", **metadata.
PgRow(upstream, downstream, kw, t) ==
    LET metadata == Rest(kw, {"constraint"})
    IN [upstream |-> upstream,
        downstream |-> downstream,
        constraint_spec |-> Get(kw, "constraint", ""),
        registered_at |-> Datetime(t),
        risk_score |-> Get(metadata, "risk_score", "0.5"),
        metadata |-> metadata]

\* INSERT ... ON CONFLICT (upstream, downstream) DO UPDATE SET constraint_spec,
\* metadata, registered_at.
PgUpsert(rows, new) ==
    IF \E i \in DOMAIN rows :
          rows[i].upstream = new.upstream /\ rows[i].downstream = new.downstream
    THEN [i \in DOMAIN rows |->
            IF rows[i].upstream = new.upstream /\ rows[i].downstream = new.downstream
            THEN [rows[i] EXCEPT !.constraint_spec = new.constraint_spec,
                                 !.metadata = new.metadata,
                                 !.registered_at = new.registered_at]
            ELSE rows[i]]
    ELSE Append(rows, new)

\* PostgresDependencyGraph.get_dependents
PgGetDependents(rows, upstream) ==
    LET selected == SelectSeq(rows, LAMBDA row : row.upstream = upstream)
    IN [i \in DOMAIN selected |->
          [upstream |-> upstream,
           downstream |-> selected[i].downstream,
           constraint |-> selected[i].constraint_spec,
           risk_score |-> selected[i].risk_score,
           metadata |-> selected[i].metadata,
           registered_at |-> selected[i].registered_at]]

\* The same register_dependent call made on both graphs.
RegisterBoth(upstream, downstream, kw) ==
    /\ Registration(upstream, downstream, FileBinding(kw))
    /\ pg' = PgUpsert(pg, PgRow(upstream, downstream, kw, now))
    /\ UNCHANGED <<orchVars, queryVars, watchVars, frontVars, workers, poolVars>>

(***************************************************************************)
(* Specifications                                                          *)
(***************************************************************************)
\* The arguments the registrations of the orchestrator's graph were made with.
OrchRegArgs == {a \in RegArgs : a.contact = ""}

\* The lists of distinct downstreams of at most MaxDeps entries.
DistinctLists ==
    {s \in UNION {[1..n -> Downstreams] : n \in 0..MaxDeps} :
        \A i, j \in DOMAIN s : s[i] = s[j] => i = j}

\* No ResultsLedger operation was called by a client yet, and a VersionWatcher
\* on an empty store with no call made.
AuxInit ==
    /\ lastAdded = <<>>
    /\ ret = NoRet
    /\ stored = <<>>
    /\ index = [p \in WatchPackages |-> "1.0"]
    /\ epoch = [p \in WatchPackages |-> 0]
    /\ lastOk = [p \in WatchPackages |-> -1]
    /\ watch = NoCheck
    /\ workers = [w \in Workers |-> NoCall]
    /\ pg = <<>>
    /\ main = NoMain
    /\ jobs = <<>>
    /\ daemon = NoDaemon
    /\ lookups = <<>>
    /\ cbLog = <<>>
    /\ request = NoRequest
    /\ response = NoResponse

\* A graph in which the downstreams of a list s of lists were registered for
\* "dol", in order, and no call made.
InitBatch(lists) ==
    /\ \E s \in lists :
         \E a \in [DOMAIN s -> OrchRegArgs] :
            /\ graph = IF Len(s) = 0 THEN <<>>
                       ELSE [u \in {"dol"} |->
                               [i \in DOMAIN s |->
                                   JsonEdge(EdgeDict("dol", s[i], a[i], i - 1))]]
            /\ regLog = [i \in DOMAIN s |->
                           [upstream |-> "dol", downstream |-> s[i], args |-> a[i]]]
            /\ now = Len(s)
    /\ pc = "idle"
    /\ batch = [upstream_package |-> "", upstream_version |-> "",
                dependents |-> <<>>, idx |-> 1]
    /\ results = <<>>
    /\ run = NoRun
    /\ ledger = <<>>
    /\ sandboxes = {}
    /\ calls = <<>>
    /\ exc = NoExc
    /\ nextId = 1
    /\ AuxInit

Init == InitBatch(DistinctLists) /\ env_key = <<>>

Next ==
    \/ \E u \in Upstreams, v \in Versions : TestAllDependents(u, v)
    \/ ReturnResults
    \/ RunTestEnter
    \/ UpstreamInstall
    \/ DownstreamInstall
    \/ VersionCheck
    \/ RunTests

Spec == Init /\ [][Next]_vars

InitGraph ==
    /\ graph = <<>>
    /\ regLog = <<>>
    /\ now = 0
    /\ pc = "idle"
    /\ batch = [upstream_package |-> "", upstream_version |-> "",
                dependents |-> <<>>, idx |-> 1]
    /\ results = <<>>
    /\ run = NoRun
    /\ ledger = <<>>
    /\ sandboxes = {}
    /\ calls = <<>>
    /\ exc = NoExc
    /\ nextId = 1
    /\ AuxInit
    /\ env_key = <<>>

NextGraph ==
    \E u \in Upstreams, d \in Downstreams, a \in RegArgs : RegisterDependent(u, d, a)

SpecGraph == InitGraph /\ [][NextGraph]_vars

\* A client stores results and then reads the ledger once; every read is
\* reachable after every sequence of add_result calls.
NextLedger ==
    \/ \E id \in TestIds, c \in ResultContents : ClientAddResult(id, c)
    \/ /\ ret.op \notin ReadOps
       /\ \E f \in QueryFilters, ids \in KeyOrders(DOMAIN ledger) : ClientQueryResults(f, ids)
    \/ /\ ret.op \notin ReadOps
       /\ \E u \in Upstreams, d \in {"pkg1", "pkg2"}, ids \in KeyOrders(DOMAIN ledger) :
             ClientGetLatestResult(u, d, ids)
    \/ \E id \in TestIds, instance \in {"same", "new"} : ClientGetItem(id, instance)

SpecLedger == InitGraph /\ [][NextLedger]_vars

NextWatch ==
    \/ \E packages \in WatchLists, callback \in Callbacks : CheckForUpdates(packages, callback)
    \/ \E latest \in {{v} : v \in WatchVersions} \cup {{}} : CheckPackage(latest)
    \/ CheckReturn
    \/ \E package \in WatchPackages, version \in WatchVersions : IndexRelease(package, version)

SpecWatch == InitGraph /\ [][NextWatch]_vars

\* The dependents of "dol" the action finds: the first n downstreams, registered
\* in that order, for n up to MaxPoolDeps.
PoolLists ==
    {s \in DistinctLists :
        Len(s) <= MaxPoolDeps /\ \A i \in DOMAIN s : s[i] = <<"pkg1", "pkg2", "pkg3">>[i]}

\* A graph with at most MaxPoolDeps dependents of "dol", all registered with the
\* same arguments, and the action not started.
InitPool ==
    /\ InitBatch(PoolLists)
    /\ \A i, j \in DOMAIN regLog : regLog[i].args = regLog[j].args
    /\ env_key = <<>>

\* The wary-test action run once, its runs on the threads of the executor.
NextPool ==
    \/ \E package_name \in Upstreams, package_version \in Versions,
          max_parallel \in 1..MaxParallel :
          Main(package_name, package_version, max_parallel)
    \/ Submit
    \/ \E j \in DOMAIN jobs : JobStart(j)
    \/ \E j \in DOMAIN jobs, package \in Upstreams \cup Downstreams : JobError(j, package)
    \/ \E j \in DOMAIN jobs : JobRaise(j)
    \/ \E j \in DOMAIN jobs : JobBlock(j)
    \/ \E j \in DOMAIN jobs, returncode \in {0, 1} : JobStore(j, returncode)
    \/ CollectResult
    \/ CollectException
    \/ PoolSummary

SpecPool == InitPool /\ [][NextPool]_vars

\* The same calls made on a file-backed and on a PostgreSQL-backed graph.
NextBackends ==
    \E upstream \in Upstreams, downstream \in Downstreams, kw \in CallKwargs :
        RegisterBoth(upstream, downstream, kw)

SpecBackends == InitGraph /\ [][NextBackends]_vars

\* The server's workers each serving one POST /api/dependents request.
NextWorkers ==
    \/ \E w \in Workers, upstream \in Upstreams, downstream \in Downstreams :
          WorkerRead(w, upstream, downstream)
    \/ \E w \in Workers : WorkerWrite(w)

SpecWorkers == InitGraph /\ [][NextWorkers]_vars

\* `wary watch`: watch_continuously polling while the index publishes releases.
NextDaemon ==
    \/ \E packages \in WatchLists, callback \in DaemonCallbacks :
          WatchContinuously(packages, callback)
    \/ DaemonPass
    \/ \E latest \in {{v} : v \in WatchVersions} \cup {{}} : CheckPackage(latest)
    \/ CheckReturn
    \/ DaemonSleep
    \/ DaemonRaise
    \/ \E package \in WatchPackages, version \in WatchVersions : IndexRelease(package, version)

SpecDaemon == InitGraph /\ [][NextDaemon]_vars

\* A server or shell with the key set or not, serving one request or command.
InitFront ==
    /\ InitBatch({s \in DistinctLists : Len(s) <= MaxFrontDeps})
    /\ env_key \in EnvKeys

NextFront ==
    \/ \E h \in AuthorizationHeaders, data \in RegisterData : ApiRegisterDependent(h, data)
    \/ \E h \in AuthorizationHeaders, data \in TestData : ApiTriggerTest(h, data)
    \/ \E h \in AuthorizationHeaders, data \in WatchData : ApiAddWatch(h, data)
    \/ \E u \in Upstreams, v \in Versions : CliTest(u, v)
    \/ ApiTriggerTestReturn
    \/ CliTestReturn
    \/ ReturnResults
    \/ RunTestEnter
    \/ UpstreamInstall
    \/ DownstreamInstall
    \/ VersionCheck
    \/ RunTests

SpecFront == InitFront /\ [][NextFront]_vars

(***************************************************************************)
(* Properties                                                              *)
(***************************************************************************)
Range(f) == {f[i] : i \in DOMAIN f}

InstallSteps == {"upstream_install", "downstream_install"}

\* The child process c is an install that exited nonzero.
InstallExitedNonzero(c) ==
    c.step \in InstallSteps /\ c.outcome.kind = "exit" /\ c.outcome.rc # 0

\* The results returned so far for the run with identifier k.
ResultsOf(k) == {i \in DOMAIN results : results[i].test_id = k}

\* No run_test call is in progress.
NoRunInProgress == pc \in {"idle", "loop", "returned", "raised"}

\* C1: test_all_dependents returns exactly one TestResult per registered
\* dependent whatever each run does, and no outcome of a run (install failure,
\* failing tests, timeout, unexpected fault) is thrown past it.
C1_OneResultPerDependent ==
    /\ pc # "raised"
    /\ pc = "returned" =>
          /\ Len(results) = Len(GetDependents(graph, batch.upstream_package))
          /\ \A i \in DOMAIN results :
                results[i].downstream_package = batch.dependents[i].downstream

\* C2: every TestResult run_test has returned (pass, fail or error) is stored in
\* the ledger under its test_id, so every test_id of the returned list is a key
\* of the ledger.
C2_ReturnedResultsStored ==
    \A i \in DOMAIN results :
        /\ results[i].test_id \in DOMAIN ledger
        /\ ledger[results[i].test_id] = JsonResult(results[i])

\* C3: in every TestResult, status is "error" iff exit_code is -1, "pass" iff
\* exit_code is 0, and "fail" iff exit_code is neither.
C3_StatusMatchesExitCode ==
    \A r \in Range(results) \cup Range(ledger) :
        /\ r.status = "error" <=> r.exit_code = -1
        /\ r.status = "pass" <=> r.exit_code = 0
        /\ r.status = "fail" <=> r.exit_code \notin {-1, 0}

\* C4: a run whose test command was still running when the timeout expired ends
\* by returning a TestResult with status fail or error; the timeout is not raised.
C4_TestTimeoutIsData ==
    \A c \in Range(calls) :
        c.step = "test" /\ c.outcome.kind = "timeout" =>
            /\ exc.test_id # c.test_id
            /\ \E i \in ResultsOf(c.test_id) : results[i].status \in {"fail", "error"}

\* C5: a run whose upstream or downstream install exceeded the timeout returns a
\* TestResult with status "error" and exit_code -1, and never runs its test command.
C5_InstallTimeoutIsErrorResult ==
    \A c \in Range(calls) :
        c.step \in InstallSteps /\ c.outcome.kind = "timeout" =>
            /\ \E i \in ResultsOf(c.test_id) :
                  results[i].status = "error" /\ results[i].exit_code = -1
            /\ \A t \in Range(calls) : ~(t.test_id = c.test_id /\ t.step = "test")

\* The status and exit code the run k has by its own child processes alone.
OwnExitCode(k) ==
    IF \E c \in Range(calls) : c.test_id = k /\ InstallExitedNonzero(c)
    THEN -1
    ELSE (CHOOSE c \in Range(calls) : c.test_id = k /\ c.step = "test").outcome.rc

OwnStatus(k) ==
    IF \E c \in Range(calls) : c.test_id = k /\ InstallExitedNonzero(c)
    THEN "error"
    ELSE IF OwnExitCode(k) = 0 THEN "pass" ELSE "fail"

\* C6: when an install of dependent A exits nonzero, A's failure is returned as
\* data, the batch goes on, and the result of every other dependent B has the
\* status and exit code of B's own installs and tests (pass when they succeed),
\* whether B ran before or after A; the returned batch holds a result for each.
C6_InstallFailureIsolated ==
    \A a \in Range(calls) :
        InstallExitedNonzero(a) =>
            /\ exc.test_id # a.test_id
            /\ Cardinality(ResultsOf(a.test_id)) = 1
            /\ \A i \in DOMAIN results :
                  results[i].test_id # a.test_id =>
                      /\ results[i].status = OwnStatus(results[i].test_id)
                      /\ results[i].exit_code = OwnExitCode(results[i].test_id)
            /\ pc = "returned" =>
                  /\ Len(results) = Len(batch.dependents)
                  /\ \A i \in DOMAIN results :
                        results[i].downstream_package = batch.dependents[i].downstream

\* A returned batch of three where the second dependent's install failed and the
\* dependents before and after it passed.
C6_Witness ==
    /\ pc = "returned"
    /\ Len(results) = 3
    /\ results[1].status = "pass"
    /\ results[2].status = "error"
    /\ results[3].status = "pass"
    /\ \E a \in Range(calls) : InstallExitedNonzero(a) /\ a.test_id = results[2].test_id

\* C7: the test command of a run is executed with the interpreter and packages
\* of that run's virtual environment, never with the host's.
C7_TestRunsInSandbox ==
    \A c \in Range(calls) :
        c.step = "test" => c.executed_in = <<"tmp", c.test_id>>

\* C8: every temporary directory run_test created is removed when run_test
\* exits, on every exit path; when no run is in progress no sandbox exists.
C8_SandboxesRemoved ==
    /\ NoRunInProgress => sandboxes = {}
    /\ ~NoRunInProgress => sandboxes = {run.tmpdir}

\* After an earlier run returned normally, a run was left by a timeout with its
\* sandbox created, and no sandbox is left.
C8_Witness ==
    /\ pc = "raised"
    /\ exc.type = "TimeoutExpired"
    /\ Len(results) >= 1
    /\ sandboxes = {}

\* C9: when the upstream install exits nonzero, run_test returns exactly one
\* TestResult, with the run's test_id, the given upstream name and version and
\* downstream name, status "error", exit_code -1, downstream_version "unknown"
\* and an output containing the installer's captured error text.
C9_UpstreamInstallFailureResult ==
    \A c \in Range(calls) :
        c.step = "upstream_install" /\ InstallExitedNonzero(c) =>
            /\ Cardinality(ResultsOf(c.test_id)) = 1
            /\ \A i \in ResultsOf(c.test_id) :
                  /\ results[i].upstream_package = batch.upstream_package
                  /\ results[i].upstream_version = batch.upstream_version
                  /\ results[i].downstream_package = c.downstream
                  /\ results[i].downstream_package = batch.dependents[i].downstream
                  /\ results[i].status = "error"
                  /\ results[i].exit_code = -1
                  /\ results[i].downstream_version = "unknown"
                  /\ c.stderr \in StderrTexts
                  /\ c.stderr \in Range(results[i].output)

\* An upstream install has failed and its error result is in the results.
C9_Witness ==
    \E c \in Range(calls) :
        /\ c.step = "upstream_install"
        /\ InstallExitedNonzero(c)
        /\ ResultsOf(c.test_id) # {}

\* The arguments of the most recent registration of the pair (u, d).
LatestArgs(u, d) ==
    LET hits == {i \in DOMAIN regLog :
                    regLog[i].upstream = u /\ regLog[i].downstream = d}
    IN regLog[CHOOSE i \in hits : \A j \in hits : j <= i].args

\* C10: after any sequence of register_dependent calls the edge list of every
\* upstream holds at most one edge per downstream, and that edge's constraint
\* and metadata (test_command, contact, extras) are those of the most recent
\* registration of the pair.
C10_OneEdgePerPairLatestWins ==
    /\ \A u \in DOMAIN graph :
          \A i, j \in DOMAIN graph[u] :
              graph[u][i].downstream = graph[u][j].downstream => i = j
    /\ \A k \in DOMAIN regLog :
          LET u == regLog[k].upstream
              d == regLog[k].downstream
              a == LatestArgs(u, d)
          IN \E i \in DOMAIN GetDependents(graph, u) :
                LET e == GetDependents(graph, u)[i]
                IN /\ e.upstream = u
                   /\ e.downstream = d
                   /\ e.constraint = a.constraint
                   /\ DOMAIN e.metadata = {"test_command", "contact"} \cup DOMAIN a.extras
                   /\ e.metadata.test_command = a.test_command
                   /\ e.metadata.contact = a.contact
                   /\ \A x \in DOMAIN a.extras : e.metadata[x] = a.extras[x]

\* The pair (dol, pkg1) was registered twice with different arguments, and
\* another pair in between.
C10_Witness ==
    /\ Len(regLog) = 3
    /\ regLog[1].upstream = regLog[3].upstream
    /\ regLog[1].downstream = regLog[3].downstream
    /\ regLog[1].args.test_command # regLog[3].args.test_command
    /\ regLog[1].args.constraint # regLog[3].args.constraint
    /\ regLog[2].upstream = regLog[1].upstream
    /\ regLog[2].downstream # regLog[1].downstream
    /\ Len(graph[regLog[1].upstream]) = 2

\* No register_dependent call was made for upstream u.
NeverRegistered(u) == \A k \in DOMAIN regLog : regLog[k].upstream # u

\* C11: when no dependent is registered for the upstream, test_all_dependents
\* returns an empty list, creates no sandbox, starts no child process and
\* leaves the ledger and the graph unchanged.
C11_EmptyBatchIsNoOp ==
    [][(pc' # "idle" /\ NeverRegistered(batch'.upstream_package)) =>
          /\ pc' \in {"loop", "returned"}
          /\ results' = <<>>
          /\ sandboxes' = {}
          /\ calls' = <<>>
          /\ nextId' = nextId
          /\ ledger' = ledger
          /\ graph' = graph]_vars

\* A batch for an upstream without dependents has returned, while another
\* upstream has dependents registered.
C11_Witness ==
    /\ pc = "returned"
    /\ NeverRegistered(batch.upstream_package)
    /\ Len(regLog) >= 2
    /\ results = <<>>

\* The steps of run k's child processes, in the order they were started.
StepsOf(k) ==
    LET own == SelectSeq(calls, LAMBDA c : c.test_id = k)
    IN [i \in DOMAIN own |-> own[i].step]

RunSteps == <<"venv", "upstream_install", "downstream_install", "version_check", "test">>

\* C19: within one run_test the steps occur in the order sandbox creation,
\* upstream install, downstream install, version lookup, test command; the
\* downstream install starts only after the upstream install exited 0, the test
\* command only after both installs exited 0, and after a failed install no
\* further step of the run executes.
C19_StepOrder ==
    \A k \in {c.test_id : c \in Range(calls)} :
        LET own == SelectSeq(calls, LAMBDA c : c.test_id = k)
        IN /\ Len(own) <= Len(RunSteps)
           /\ \A i \in DOMAIN own : own[i].step = RunSteps[i]
           /\ \A i \in DOMAIN own :
                 i > 1 => own[i - 1].outcome.kind = "exit"
           /\ \A i \in DOMAIN own :
                 own[i].step \in {"downstream_install", "version_check", "test"} =>
                     own[2].outcome = Exit(0)
           /\ \A i \in DOMAIN own :
                 own[i].step \in {"version_check", "test"} => own[3].outcome = Exit(0)
           /\ \A i \in DOMAIN own : InstallExitedNonzero(own[i]) => i = Len(own)
           /\ \A i \in DOMAIN own :
                 InstallExitedNonzero(own[i]) /\ k # run.test_id =>
                     \E j \in ResultsOf(k) : results[j].status = "error"

\* One run went through all five steps and a later run stopped at its failed
\* downstream install.
C19_Witness ==
    /\ Len(results) = 2
    /\ StepsOf(results[1].test_id) = RunSteps
    /\ StepsOf(results[2].test_id) = <<"venv", "upstream_install", "downstream_install">>
    /\ results[2].status = "error"

\* The (upstream, downstream) pairs registered so far, by the log of calls.
RegisteredPairs(log) == {<<log[k].upstream, log[k].downstream>> : k \in DOMAIN log}

\* The (upstream, downstream) pairs of a list of edges.
PairsOf(edges) == {<<edges[i].upstream, edges[i].downstream>> : i \in DOMAIN edges}

\* C20: register_dependent(u, d, ...) changes only the edge of (u, d): every
\* other edge keeps its content; and after the registration of n distinct pairs
\* get_all_edges returns exactly n edges, one per pair, and get_dependents(u)
\* exactly the edges registered for u.
C20_OnlyOwnEdgeChanges ==
    [][LET last == regLog'[Len(regLog')]
       IN /\ \A u \in Upstreams :
                LET old == GetDependents(graph, u)
                    new == GetDependents(graph', u)
                IN \A i \in DOMAIN old :
                       <<u, old[i].downstream>> # <<last.upstream, last.downstream>> =>
                           Cardinality({j \in DOMAIN new : new[j] = old[i]}) = 1
          /\ \A order \in KeyOrders(DOMAIN graph') :
                LET all == GetAllEdges(graph', order)
                IN /\ Len(all) = Cardinality(RegisteredPairs(regLog'))
                   /\ PairsOf(all) = RegisteredPairs(regLog')
          /\ \A u \in Upstreams :
                LET deps == GetDependents(graph', u)
                IN /\ PairsOf(deps) = {p \in RegisteredPairs(regLog') : p[1] = u}
                   /\ Len(deps) = Cardinality(PairsOf(deps))]_vars

\* Both upstreams have edges, and one pair was registered again after another
\* edge of the same upstream.
C20_Witness ==
    /\ Len(regLog) = MaxRegs
    /\ Cardinality(RegisteredPairs(regLog)) = 2
    /\ regLog[1].upstream = regLog[2].upstream
    /\ regLog[1].downstream # regLog[2].downstream
    /\ regLog[3].upstream = regLog[1].upstream
    /\ regLog[3].downstream = regLog[1].downstream
    /\ regLog[3].args # regLog[1].args
    /\ Len(GetDependents(graph, regLog[1].upstream)) = 2

\* C12: once a result is stored under a test_id, no later add_result changes
\* the stored record: results are immutable.
C12_StoredResultNeverChanges ==
    [][\A k \in DOMAIN ledger : k \in DOMAIN ledger' /\ ledger'[k] = ledger[k]]_vars

\* The test ids of the stored results of a package pair.
StoredForPair(l, upstream_package, downstream_package) ==
    {k \in DOMAIN l : /\ l[k].upstream_package = upstream_package
                      /\ l[k].downstream_package = downstream_package}

EachOnce(rs, l, S) ==
    /\ {rs[i].test_id : i \in DOMAIN rs} = S
    /\ Len(rs) = Cardinality(S)
    /\ \A i \in DOMAIN rs : rs[i] = l[rs[i].test_id]

\* Result r matches every filter of f that was supplied.
MatchesSupplied(r, f) ==
    /\ f.upstream_package # {} => r.upstream_package \in f.upstream_package
    /\ f.downstream_package # {} => r.downstream_package \in f.downstream_package
    /\ f.status # {} => r.status \in f.status
    /\ \A a \in f.after : r.started_at.t >= a.t

\* C14: query_results returns exactly the stored results that match every
\* supplied filter (after: started at or after the instant), each at most
\* once; a filter that is not supplied excludes nothing; the ledger is unchanged.
C14_QueryExact ==
    [][ret'.op = "query_results" =>
          /\ ledger' = ledger
          /\ EachOnce(ret'.value, ledger,
                      {k \in DOMAIN ledger : MatchesSupplied(ledger[k], ret'.filters)})]_vars

\* Result r matches every filter of f that was supplied with a non-empty value.
MatchesNonEmpty(r, f) ==
    /\ f.upstream_package \notin {{}, {""}} => r.upstream_package \in f.upstream_package
    /\ f.downstream_package \notin {{}, {""}} => r.downstream_package \in f.downstream_package
    /\ f.status \notin {{}, {""}} => r.status \in f.status
    /\ \A a \in f.after : r.started_at.t >= a.t

\* C14 (amended): query_results returns exactly the stored results that match
\* every filter supplied with a non-empty value, each once; a filter that is
\* not supplied, or supplied as the empty string, excludes nothing; the ledger
\* is unchanged.
C14_QueryExactNonEmpty ==
    [][ret'.op = "query_results" =>
          /\ ledger' = ledger
          /\ EachOnce(ret'.value, ledger,
                      {k \in DOMAIN ledger : MatchesNonEmpty(ledger[k], ret'.filters)})]_vars

\* A query with all four filters returned the one result that matches them,
\* started exactly at `after`, out of three stored results.
C14_Witness ==
    /\ ret.op = "query_results"
    /\ \A x \in {"upstream_package", "downstream_package", "status", "after"} :
          ret.filters[x] # {}
    /\ Cardinality(DOMAIN ledger) = 3
    /\ Len(ret.value) = 1
    /\ \A a \in ret.filters.after : ret.value[1].started_at.t = a.t
    /\ \E k \in DOMAIN ledger :
          ledger[k].started_at.t > ret.value[1].started_at.t

\* The fields of a result that a lookup has to return as they were added.
KeptFields ==
    {"test_id", "status", "upstream_package", "downstream_package",
     "upstream_version", "downstream_version", "exit_code", "output"}

\* C18: after add_result(r), a lookup of r's test_id, on the same ledger or on
\* a new instance of the same store path, returns a record with the test_id,
\* status, package names, versions, exit_code and output of r, also after
\* later add_result calls for other test_ids.
C18_LookupReturnsAdded ==
    (ret.op = "getitem" /\ ret.test_id \in DOMAIN lastAdded) =>
        /\ ret.got.raised = "none"
        /\ Cardinality(ret.got.value) = 1
        /\ \A r \in ret.got.value :
              \A x \in KeptFields : r[x] = lastAdded[ret.test_id].result[x]

\* A new instance looked up a result after which two other test ids were stored.
C18_Witness ==
    /\ ret.op = "getitem"
    /\ ret.instance = "new"
    /\ ret.test_id \in DOMAIN lastAdded
    /\ lastAdded[ret.test_id].followed
    /\ Cardinality(DOMAIN lastAdded) = 3
    /\ ret.got.value # {}

\* Lookup l of the current call found an update: it succeeded and the stored
\* version differed from the latest one.
FoundUpdate(l) == l.latest # {} /\ l.stored # l.latest

\* C15: check_for_updates(packages) returns an entry package -> (stored,
\* latest) for exactly the listed packages whose lookup succeeded with a stored
\* version different from the latest one (a never-seen package counts, with old
\* version None); on return the stored version of every reported package is its
\* reported new version, so a lookup that follows a successful one with no
\* release in between reports nothing.
C15_UpdatesReported ==
    /\ watch.pc = "returned" =>
          /\ DOMAIN watch.updates = {l.package : l \in {x \in Range(lookups) : FoundUpdate(x)}}
          /\ DOMAIN watch.updates \subseteq Range(watch.packages)
          /\ \A p \in DOMAIN watch.updates :
                /\ GetStoredVersion(stored, p) = {watch.updates[p].new}
                /\ \E i \in DOMAIN lookups :
                      /\ lookups[i].package = p
                      /\ FoundUpdate(lookups[i])
                      /\ watch.updates[p].old = lookups[i].stored
                      /\ {watch.updates[p].new} = lookups[i].latest
                      /\ \A j \in DOMAIN lookups :
                            (j > i /\ lookups[j].package = p) => ~FoundUpdate(lookups[j])
    /\ \A i \in DOMAIN lookups :
          (lookups[i].latest # {} /\ lookups[i].last_ok = lookups[i].epoch) =>
              ~FoundUpdate(lookups[i])

\* A second call returned without a report for a package that the first call
\* reported, and with a report for a package never seen before.
C15_Witness ==
    /\ watch.pc = "returned"
    /\ watch.n = 2
    /\ watch.packages = <<"dol", "i2">>
    /\ DOMAIN watch.updates = {"i2"}
    /\ watch.updates["i2"].old = {}
    /\ lookups[1].latest # {}
    /\ lookups[1].last_ok = lookups[1].epoch

\* The request being served is a `test` operation of the CLI or of the API.
TestOperation ==
    \/ request.frontend = "cli"
    \/ request.frontend = "api" /\ request.route = "POST /api/test"

\* The operation ended in an error: an uncaught exception or a non-zero exit
\* of the command, or an HTTP 5xx answer.
EndedInError ==
    \/ request.frontend = "cli" /\ (response.status # 0 \/ response.raised # "none")
    \/ request.frontend = "api" /\ response.status >= 500

\* The exceptions that stand for a fault of the orchestrator itself (ledger or
\* graph unreachable); none of the faults of a single dependent is one.
StructuralFaults == {"LedgerUnreachable", "GraphUnreachable"}

\* C16: the test operation of the CLI and of the HTTP API ends in an error
\* only on a structural fault; whenever the runs of the dependents return
\* results, it completes normally and reports one entry per result, with the
\* result's downstream, status and (in the API's summary) test_id, and a total
\* equal to the number of results.
C16_TestOperationReports ==
    (TestOperation /\ response # NoResponse /\ response.status \notin {400, 401}) =>
        /\ EndedInError => exc.type \in StructuralFaults
        /\ pc = "returned" =>
              LET entries == IF request.frontend = "api" THEN response.body.results
                             ELSE response.body
              IN /\ ~EndedInError
                 /\ Len(entries) = Len(results)
                 /\ \A i \in DOMAIN entries :
                       /\ entries[i].downstream = results[i].downstream_package
                       /\ entries[i].status = results[i].status
                       /\ request.frontend = "api" =>
                             /\ entries[i].test_id = results[i].test_id
                             /\ response.body.total = Len(results)

\* The Authorization header carries the expected key, bare or after 'Bearer '.
CarriesKey(authorization, expected_key) ==
    authorization = expected_key \/ authorization = <<Bearer>> \o expected_key

\* C17: with WARY_API_KEY set to a non-empty value, the handlers wrapped by
\* require_api_key (register dependent, trigger test, add watch) execute only
\* for requests whose Authorization key, an optional 'Bearer ' prefix removed,
\* equals it; every other request is answered 401 and changes neither the
\* graph nor the ledger.
C17_ApiKeyRequired ==
    [][(request = NoRequest /\ request'.frontend = "api" /\ env_key # <<>>) =>
          IF CarriesKey(request'.authorization, env_key)
          THEN response' # Unauthorized
          ELSE /\ response' = Unauthorized
               /\ graph' = graph
               /\ ledger' = ledger
               /\ pc' = "idle"
               /\ calls' = calls]_vars

\* A request to register a dependent, with a key other than the expected one
\* after 'Bearer ', was answered 401.
C17_Witness ==
    /\ env_key = <<"k1">>
    /\ request.frontend = "api"
    /\ request.route = "POST /api/dependents"
    /\ request.authorization = <<Bearer, "k2">>
    /\ request.data.downstream = "pkg3"
    /\ response = Unauthorized

\* The steps of run_test that wait for a child process.
BlockingSteps == {"upstream_install", "downstream_install", "version_check", "test"}

\* C25: every blocking subprocess step of run_test (upstream install,
\* downstream install, downstream version lookup, test command) is bounded by
\* the run's timeout, so run_test never waits forever for a child process.
C25_EveryStepHasTimeout ==
    /\ \A c \in Range(calls) : c.step \in BlockingSteps => c.timeout = {DefaultTimeout}
    /\ pc # "blocked"

\* C27: check_for_updates records a detected change as seen only after the
\* callback for it has returned normally: the callback runs while the stored
\* version is still the old one, and when the callback raises the stored
\* version is unchanged, so the next check reports the change again.
C27_SeenOnlyAfterCallback ==
    /\ \A c \in Range(cbLog) : c.stored = c.old
    /\ watch.pc = "raised" =>
          LET package == watch.packages[watch.i]
          IN GetStoredVersion(stored, package) = watch.updates[package].old

\* A step of check_for_updates whose lookup failed: get_latest_version
\* returned None.
FailedLookupStep ==
    /\ Len(lookups') = Len(lookups) + 1
    /\ lookups'[Len(lookups')].latest = {}

\* C29: when the lookup of a package fails (get_latest_version returns None),
\* check_for_updates leaves that package's stored version unchanged, does not
\* report it as updated, does not invoke the callback, and goes on to the
\* remaining packages: a call that returns has looked up every listed package.
C29_FailedLookupSkipped ==
    [][/\ FailedLookupStep =>
             /\ stored' = stored
             /\ watch'.updates = watch.updates
             /\ cbLog' = cbLog
             /\ watch'.pc = "loop"
             /\ watch'.i = watch.i + 1
       /\ watch'.pc = "returned" =>
             /\ Len(lookups') = Len(watch'.packages)
             /\ \A i \in DOMAIN lookups' : lookups'[i].package = watch'.packages[i]]_vars

\* A call with a callback returned after the lookup of its first package
\* failed and the lookup of its second package found an update.
C29_Witness ==
    /\ watch.pc = "returned"
    /\ watch.callback = "returns"
    /\ watch.packages = <<"dol", "i2">>
    /\ lookups[1].latest = {}
    /\ lookups[2].latest # {}
    /\ DOMAIN watch.updates = {"i2"}
    /\ "dol" \notin DOMAIN stored
    /\ "dol" \notin {c.package : c \in Range(cbLog)}

\* C28: watch_continuously keeps polling: it is never left, every pass checks
\* every listed package, and a failure while handling one package's update (the
\* callback raising) stops neither the current pass nor later passes.
C28_WatchKeepsPolling ==
    /\ daemon.pc # "raised"
    /\ (daemon.pc = "checking" /\ watch.pc = "raised") => watch.i > Len(watch.packages)

\* The calls of workers v and w overlapped: neither had returned when the
\* other read the edge list.
Overlapped(v, w) == v \notin workers[w].after /\ w \notin workers[v].after

\* C26: two overlapping register_dependent calls for the same upstream with
\* different downstreams both take effect: once both have returned, the
\* upstream's edge list holds both downstreams, in any interleaving.
C26_NoRegistrationLost ==
    \A v, w \in Returned :
        (/\ v # w
         /\ Overlapped(v, w)
         /\ workers[v].upstream = workers[w].upstream
         /\ workers[v].downstream # workers[w].downstream)
        => {workers[v].downstream, workers[w].downstream}
              \subseteq {e.downstream : e \in Range(GetDependents(graph, workers[v].upstream))}

\* metadata.get('test_command'): the value, or no value when the key is missing.
TestCommandOf(edge) ==
    IF "test_command" \in DOMAIN edge.metadata THEN {edge.metadata.test_command} ELSE {}

\* What the claim compares of a get_dependents answer: per edge the downstream,
\* the constraint and the test_command of the metadata.
Compared(edges) ==
    {[downstream |-> e.downstream, constraint |-> e.constraint,
      test_command |-> TestCommandOf(e)] : e \in Range(edges)}

\* The answer lists each downstream at most once.
OnePerPair(edges) ==
    \A i, j \in DOMAIN edges : edges[i].downstream = edges[j].downstream => i = j

\* C30: after every step of the same sequence of register_dependent calls, the
\* file-backed DependencyGraph and the PostgresDependencyGraph agree for every
\* upstream on get_dependents: the same downstreams, each with the same
\* constraint and the same test_command in its metadata, one edge per pair.
C30_BackendsAgree ==
    \A upstream \in Upstreams :
        LET file == GetDependents(graph, upstream)
            postgres == PgGetDependents(pg, upstream)
        IN /\ Compared(file) = Compared(postgres)
           /\ \A e \in Compared(file) : e.test_command # {}
           /\ OnePerPair(file)
           /\ OnePerPair(postgres)

\* The future of run k ended in the except branch of the collecting loop: the
\* run raised, or its result was not there within the wait.
Failed(k) == \E e \in Range(main.errors) : e.job = k

\* Run j is queued while every thread of the executor is held by a run that
\* waits for a child that never exits: no later step can start run j.
NeverStarts(j) ==
    /\ jobs[j].pc = "queued"
    /\ Cardinality({k \in DOMAIN jobs : jobs[k].pc = "blocked"}) = main.max_parallel

\* C21: when the wary-test action computes its summary, the collected results
\* hold exactly one outcome per registered dependent; a run that raised, or
\* whose result was not available within the 600-second wait, is there as an
\* error-classified TestResult.
C21_OneOutcomePerDependent ==
    main.pc = "summary" =>
        /\ Len(main.results) = Len(main.dependents)
        /\ \A i \in DOMAIN main.dependents :
              Cardinality({k \in DOMAIN main.results :
                  main.results[k].downstream_package = main.dependents[i].downstream}) = 1
        /\ \A k \in DOMAIN jobs :
              Failed(k) => \E r \in Range(main.results) :
                              /\ r.downstream_package = jobs[k].downstream
                              /\ r.status = "error"

\* C22: a run that raises or times out cancels no other run: every other run
\* can still be started, and when the summary is computed every submitted run
\* has reached a terminal state and every run that returned within its wait has
\* its result among the collected ones.
C22_FailureCancelsNoOtherRun ==
    /\ \A j, k \in DOMAIN jobs : (j # k /\ Failed(k)) => ~NeverStarts(j)
    /\ main.pc = "summary" =>
          /\ Done = DOMAIN jobs
          /\ \A j \in DOMAIN jobs :
                (jobs[j].pc = "returned" /\ ~Failed(j)) =>
                    jobs[j].result \subseteq Range(main.results)

\* C23: at no moment are more than MAX_PARALLEL run_test invocations in
\* progress, the runs submitted are one per registered dependent, in order, and
\* every submitted run can still be started.
C23_BoundedParallelism ==
    /\ Cardinality(InProgress) <= main.max_parallel
    /\ Len(jobs) <= Len(main.dependents)
    /\ \A j \in DOMAIN jobs : jobs[j].downstream = main.dependents[j].downstream
    /\ main.pc = "summary" => Len(jobs) = Len(main.dependents)
    /\ \A j \in DOMAIN jobs : ~NeverStarts(j)

\* The runs that have drawn their test_id.
Started == {j \in DOMAIN jobs : jobs[j].pc # "queued"}

\* The runs that stored a result.
Stored == {j \in DOMAIN jobs : jobs[j].pc = "returned"
                                  /\ \E r \in jobs[j].result : r.status # "error"}

\* Every stored result is in the ledger under its own id, as it was written.
StoredIntact ==
    \A j \in Stored : \A r \in jobs[j].result :
        LedgerGetItem(ledger, r.test_id).value = {JsonResult(r)}

\* C24: run_test invocations running side by side on one ResultsLedger each
\* write only the entry keyed by their own fresh test_id, and the ids are
\* distinct: no step changes an entry already there, and in every interleaving
\* the ledger holds each persisted result intact.
C24_ConcurrentWritesIntact ==
    [][/\ \A id \in DOMAIN ledger : id \in DOMAIN ledger' /\ ledger'[id] = ledger[id]
       /\ \A id \in DOMAIN ledger' \ DOMAIN ledger :
             \E j \in DOMAIN jobs : jobs[j].pc = "running" /\ jobs[j].run.test_id = id
       /\ \A j, k \in Started' :
             j # k => jobs'[j].run.test_id # jobs'[k].run.test_id
       /\ StoredIntact']_vars

\* Two runs stored their results while the other was in progress.
C24_Witness ==
    /\ Cardinality(Stored) = 2
    /\ \E j \in Stored : jobs[j].beside # {}
    /\ Cardinality(DOMAIN ledger) = 2

====
